---- MODULE Spec2Model ----
(***************************************************************************)
(* Model of rusty-sandbox: the Sandbox handle (src/src/sandbox.rs), the    *)
(* anchor child it forks, and the two execution recipes run_python and     *)
(* run_cpp (src/src/apis.rs) that drive it.                                *)
(*                                                                         *)
(* Text is a sequence of tokens.  A token stands for a piece of a byte     *)
(* stream: a newline, an invalid UTF-8 byte, ordinary non-blank text, or   *)
(* the literal text "Compilation failed:".                                 *)
(***************************************************************************)
EXTENDS Integers, Sequences, FiniteSets, TLC

\* ------------------------------------------------------------------ bounds
\* Longest captured stdout / stderr, in tokens.
MaxLen == 3
\* Calls of terminate the direct caller of the handle makes (SpecTerm).
MaxCalls == 3
\* Requests served at the same time, each by its own handler (SpecHost).
MaxHandlers == 2
\* The process ids the kernel hands out: PidLow .. PidLow + MaxPids - 1.
PidLow == 9
MaxPids == 3

\* ------------------------------------------------------- program constants
timeout == 15
PollBudget == 5
CpuSeconds == 10
FileBytes == 20 * 1024 * 1024

\* ------------------------------------------------------------------- text
NL == "\n"
BadByte == "\\xFF"
Replacement == "\\uFFFD"
CompFailedText == "Compilation failed:"
Bytes == {NL, "x", CompFailedText, BadByte}

RawTexts == UNION {[1..n -> Bytes] : n \in 0..MaxLen}
\* The streams drawn for the commands of a recipe: valid UTF-8 only.
ValidTexts == UNION {[1..n -> Bytes \ {BadByte}] : n \in 0..MaxLen}

\* String::from_utf8_lossy: invalid bytes become U+FFFD, the rest is kept.
from_utf8_lossy(s) ==
    [i \in 1..Len(s) |-> IF s[i] = BadByte THEN Replacement ELSE s[i]]

IsWhitespace(c) == c = NL

RECURSIVE trim_start(_)
trim_start(s) ==
    IF s # <<>> /\ IsWhitespace(Head(s)) THEN trim_start(Tail(s)) ELSE s

RECURSIVE trim_end(_)
trim_end(s) ==
    IF s # <<>> /\ IsWhitespace(s[Len(s)])
    THEN trim_end(SubSeq(s, 1, Len(s) - 1))
    ELSE s

\* str::trim
trim(s) == trim_end(trim_start(s))

\* ------------------------------------------------- Sandbox::run_command
Ok(t) == [ok |-> TRUE, text |-> t]
Err(t) == [ok |-> FALSE, text |-> t]

\* ExitStatus of the spawned shell: an exit code, or -1 for death by signal.
Statuses == {0, 1, -1}
success(status) == status = 0

SpawnErrors == {<<"No such file or directory (os error 2)">>}

\* What Command::output() can give back: an io::Error, or the Output of the
\* finished process.
SpawnFailed(e) ==
    [spawned |-> FALSE, err |-> e, status |-> -1, stdout |-> <<>>, stderr |-> <<>>]
Exited(st, out, er) ==
    [spawned |-> TRUE, err |-> <<>>, status |-> st, stdout |-> out, stderr |-> er]

\* nsenter needs the namespaces of a live target: with the anchor gone the
\* wrapped shell cannot exit 0.
Outputs(anchorAlive, texts) ==
    {SpawnFailed(e) : e \in SpawnErrors}
    \cup {Exited(st, out, er) :
            st \in (IF anchorAlive THEN Statuses ELSE Statuses \ {0}),
            out \in texts, er \in texts}

run_command_buggy(o) ==
    IF ~o.spawned THEN Err(o.err)
    ELSE IF success(o.status)
         THEN Ok(trim(from_utf8_lossy(o.stdout)))
         ELSE Err(trim(from_utf8_lossy(o.stdout)))

run_command(o) ==
    IF ~o.spawned THEN Err(o.err)
    ELSE IF success(o.status)
         THEN Ok(trim(from_utf8_lossy(o.stdout)))
         ELSE Err(trim(from_utf8_lossy(o.stderr)))

ResultsAlive == {run_command(o) : o \in Outputs(TRUE, ValidTexts)}
ResultsDead == {run_command(o) : o \in Outputs(FALSE, ValidTexts)}
Results(anchorAlive) == IF anchorAlive THEN ResultsAlive ELSE ResultsDead

\* ------------------------------------------------ Settings::from_env
\* USE_COMPLETE_ISOLATION as the process finds it: unset, or some text.
EnvValues == {"unset", "true", "false", "1"}

\* str::parse::<bool> accepts exactly "true" and "false".
parse_bool(v) ==
    IF v = "true" THEN [ok |-> TRUE, val |-> TRUE]
    ELSE IF v = "false" THEN [ok |-> TRUE, val |-> FALSE]
    ELSE [ok |-> FALSE, val |-> FALSE]

from_env_lenient(v) == v \in {"true", "1"}

\* use_complete_isolation: unwrap_or_else("false"), parse, unwrap_or(false)
from_env(v) ==
    LET raw == IF v = "unset" THEN "false" ELSE v
        p == parse_bool(raw)
    IN IF p.ok THEN p.val ELSE FALSE

\* ------------------------------------------------------- the anchor child
\* The calls the child branch of Sandbox::new makes after fork, in program
\* order.  apply_seccomp is two operations: building and loading the filter
\* (ctx.load) and the prctl call that follows it.
CompleteOps ==
    << "configure_cgroups", "isolate_filesystem", "drop_root_privileges",
       "seccomp_load", "seccomp_prctl", "limit_process_count",
       "disable_network" >>

MinimalOps == << "warn" >>

ChildProgram_no_skip(complete) ==
    << "unshare" >> \o CompleteOps \o << "rlimit_cpu", "rlimit_fsize", "idle" >>

ChildProgram(complete) ==
    << "unshare" >>
    \o (IF complete THEN CompleteOps ELSE MinimalOps)
    \o << "rlimit_cpu", "rlimit_fsize", "idle" >>

\* The system calls an operation makes.
Syscalls(op) ==
    CASE op = "unshare" -> {"unshare"}
      [] op = "warn" -> {"write"}
      [] op = "configure_cgroups" -> {"mkdir", "open", "write", "close"}
      [] op = "isolate_filesystem" -> {"chroot", "chdir"}
      [] op = "drop_root_privileges" -> {"open", "write", "close"}
      [] op = "seccomp_load" -> {"prctl", "seccomp"}
      [] op = "seccomp_prctl" -> {"prctl"}
      [] op = "limit_process_count" -> {"stat", "mkdir", "open", "write", "close"}
      [] op = "disable_network" -> {"open", "write", "close"}
      [] op = "rlimit_cpu" -> {"prlimit64"}
      [] op = "rlimit_fsize" -> {"prlimit64"}
      [] op = "idle" -> {"nanosleep"}

\* The filter apply_seccomp builds: default action Kill, rules allowing
\* syscalls 0, 1 and 60 under a comparison that always matches.
FilterAllows == {"read", "write", "exit"}

\* Operations that can report a failure to the child.
CanFail(op) == op \notin {"warn", "idle"}

Fatal_chroot_ignored(op) ==
    op \in {"unshare", "configure_cgroups", "drop_root_privileges",
            "seccomp_load", "limit_process_count", "disable_network"}

Fatal_uniform(op) == CanFail(op)

\* A failure met with expect() panics; set_process_limit and the prctl call
\* of apply_seccomp only log it.
Fatal(op) ==
    op \in {"unshare", "configure_cgroups", "isolate_filesystem",
            "drop_root_privileges", "seccomp_load", "limit_process_count",
            "disable_network"}

\* set_process_limit(pid, resource, limit)
LimitOf(op) ==
    CASE op = "rlimit_cpu" -> [resource |-> "RLIMIT_CPU", limit |-> CpuSeconds]
      [] op = "rlimit_fsize" -> [resource |-> "RLIMIT_FSIZE", limit |-> FileBytes]

\* ------------------------------------------------------------------ paths
\* format!("{}", pid): the decimal digits of the pid.
Digit(d) == << "0", "1", "2", "3", "4", "5", "6", "7", "8", "9" >>[d + 1]

RECURSIVE to_string(_)
to_string(n) ==
    IF n < 10 THEN << Digit(n) >>
    ELSE to_string(n \div 10) \o << Digit(n % 10) >>

cgroup_path_shared(pid) == << "/sys/fs/cgroup/sandbox" >>
\* configure_cgroups: format!("/sys/fs/cgroup/sandbox_{}", pid)
cgroup_path(pid) == << "/sys/fs/cgroup/sandbox_" >> \o to_string(pid)
\* isolate_filesystem: format!("sandbox/{}/root", pid)
root_dir(pid) == << "sandbox/" >> \o to_string(pid) \o << "/root" >>

\* ------------------------------------------------------------------ state
VARIABLES
    lang,        \* the route of the request: "python" or "cpp"
    pc,          \* where the parent (the recipe) stands
    ret,         \* where terminate returns to
    elapsed,     \* start_time.elapsed().as_secs(), saturated at timeout
    sandbox,     \* the Option<Sandbox> of the recipe: "None" or "Some"
    ready,       \* is_running has returned true for this sandbox
    cmdLog,      \* the run_command calls issued, in order
    response,    \* the output of the ExecutionResponse
    term,        \* the current (last) call of terminate
    termCalls,   \* calls of terminate on this sandbox
    envIso,      \* USE_COMPLETE_ISOLATION in the environment
    autoReap,    \* the server runs with SIGCHLD ignored: the kernel reaps
                 \* exited children itself and they leave no zombie
    proc,        \* the anchor's entry in the process table
    sigterm,     \* a SIGTERM is pending for the anchor
    cpc,         \* index of the child's next operation
    steps,       \* the operations the child has run, with their outcome
    filter,      \* the seccomp filter is loaded
    rlimits,     \* the limits prlimit has set on the anchor
    cexit,       \* why the anchor left Sandbox::new, "none" while it runs
    cmdOut,      \* run_command: what Command::output gave back
    cmdRes,      \* run_command: what it returned
    anchors      \* the anchors of the requests served side by side

vars == << lang, pc, ret, elapsed, sandbox, ready, cmdLog, response, term,
           termCalls, envIso, autoReap, proc, sigterm, cpc, steps, filter,
           rlimits, cexit, cmdOut, cmdRes, anchors >>

parentVars == << lang, pc, ret, elapsed, sandbox, ready, cmdLog, response,
                 term, termCalls >>
childVars == << cpc, steps, filter, rlimits, cexit >>
envVars == << envIso, autoReap >>
cmdVars == << cmdOut, cmdRes >>
hostVars == << anchors >>

\* The handlers that serve requests at the same time, the pids the kernel
\* has to give, and an anchor slot: its state, its pid, and the cgroup and
\* chroot directories its child has used.
Handlers == 1..MaxHandlers
Pids == PidLow..(PidLow + MaxPids - 1)
NoPath == << >>
NoAnchor == [st |-> "none", pid |-> 0, cgroup |-> NoPath, root |-> NoPath]
NoAnchors == [h \in Handlers |-> NoAnchor]

NoText == << >>
\* A call of terminate: the kill calls made, whether the kernel took the
\* signal, the waitpid polls, whether one of them reaped the anchor, the
\* sleeps, how the call ended, and whether the anchor had already exited when
\* the call began.
TermIdle ==
    [kills |-> 0, sent |-> FALSE, polls |-> 0, reaped |-> FALSE, sleeps |-> 0,
     outcome |-> "idle", gone |-> FALSE]
NoOutput == SpawnFailed(<<>>)

complete == from_env(envIso)
program == ChildProgram(complete)

Min(a, b) == IF a < b THEN a ELSE b

\* How long a blocking call (a file write, a compilation) can take, and how
\* far the clock reading moves over thread::sleep(1 s).
Durations == 0..timeout
SleepDurations == {1, 2}

\* ---------------------------------------------------------- the kernel
\* An exiting anchor stays in the process table as a zombie until its
\* parent waits for it, unless the kernel reaps it at once.
ChildExit(why) ==
    /\ cexit' = why
    /\ proc' = IF autoReap THEN "reaped" ELSE "zombie"
    /\ sigterm' = FALSE

\* ---------------------------------------------- Sandbox::new, child side
parked == proc = "alive" /\ cpc = Len(program) + 1

ChildStep ==
    /\ proc = "alive"
    /\ cpc \in 1..Len(program)
    /\ LET op == program[cpc] IN
         IF filter /\ ~(Syscalls(op) \subseteq FilterAllows)
         THEN /\ ChildExit("SIGSYS")
              /\ UNCHANGED << cpc, steps, filter, rlimits >>
         ELSE \E ok \in (IF CanFail(op) THEN BOOLEAN ELSE {TRUE}) :
                /\ steps' = Append(steps, [op |-> op, ok |-> ok])
                /\ IF ~ok /\ Fatal(op)
                   THEN /\ ChildExit("panic")
                        /\ UNCHANGED << cpc, filter, rlimits >>
                   ELSE /\ cpc' = cpc + 1
                        /\ filter' = (filter \/ (ok /\ op = "seccomp_load"))
                        /\ rlimits' =
                             IF ok /\ op \in {"rlimit_cpu", "rlimit_fsize"}
                             THEN rlimits \cup {LimitOf(op)}
                             ELSE rlimits
                        /\ UNCHANGED << cexit, proc, sigterm >>
    /\ UNCHANGED << parentVars, envVars, cmdVars,
                    hostVars >>

\* The default disposition of SIGTERM ends the anchor.
DeliverSigterm ==
    /\ proc = "alive"
    /\ sigterm
    /\ ChildExit("SIGTERM")
    /\ UNCHANGED << parentVars, envVars, cmdVars, hostVars, cpc, steps, filter,
                    rlimits >>

\* ------------------------------------------------------ Sandbox, parent side
is_running_when_parked == parked

\* fs::metadata("/proc/<pid>/status") succeeds while the pid is in the
\* process table, zombie or not.
is_running == proc \in {"alive", "zombie"}

\* terminate is entered: the response to give afterwards is already decided.
TermCall(resp) ==
    /\ response' = resp
    /\ pc' = "term_kill"
    /\ termCalls' = termCalls + 1
    /\ term' = [TermIdle EXCEPT !.outcome = "running",
                                !.gone = (proc \in {"zombie", "reaped"})]
    /\ elapsed' = 0

TermKill_no_return ==
    /\ pc = "term_kill"
    /\ term' = [term EXCEPT !.kills = @ + 1,
                            !.sent = (proc \in {"alive", "zombie"})]
    /\ sigterm' = (sigterm \/ proc = "alive")
    /\ pc' = "term_poll"
    /\ UNCHANGED << lang, ret, elapsed, sandbox, ready, cmdLog, response,
                    termCalls, proc, childVars, envVars, cmdVars,
                    hostVars >>

\* kill(self.pid, SIGTERM): ESRCH once the pid has left the process table.
TermKill ==
    /\ pc = "term_kill"
    /\ IF proc \in {"alive", "zombie"}
       THEN /\ term' = [term EXCEPT !.kills = @ + 1, !.sent = TRUE]
            /\ sigterm' = (sigterm \/ proc = "alive")
            /\ pc' = "term_poll"
       ELSE /\ term' = [term EXCEPT !.kills = @ + 1, !.outcome = "kill_failed"]
            /\ pc' = ret
            /\ UNCHANGED sigterm
    /\ UNCHANGED << lang, ret, elapsed, sandbox, ready, cmdLog, response,
                    termCalls, proc, childVars, envVars, cmdVars,
                    hostVars >>

TermPoll_blind ==
    /\ pc = "term_poll"
    /\ term' = [term EXCEPT !.polls = @ + 1, !.reaped = (proc = "zombie")]
    /\ pc' = "term_sleep"
    /\ proc' = IF proc = "zombie" THEN "reaped" ELSE proc
    /\ UNCHANGED << lang, ret, elapsed, sandbox, ready, cmdLog, response,
                    termCalls, sigterm, childVars, envVars, cmdVars,
                    hostVars >>

\* waitpid(self.pid, WNOHANG): reaps a zombie and reports its exit; a live
\* child is StillAlive, a pid that is no child is an error.
TermPoll ==
    /\ pc = "term_poll"
    /\ IF proc = "zombie"
       THEN /\ proc' = "reaped"
            /\ term' = [term EXCEPT !.polls = @ + 1, !.reaped = TRUE,
                                    !.outcome = "exited"]
            /\ pc' = ret
       ELSE /\ term' = [term EXCEPT !.polls = @ + 1]
            /\ pc' = "term_sleep"
            /\ UNCHANGED proc
    /\ UNCHANGED << lang, ret, elapsed, sandbox, ready, cmdLog, response,
                    termCalls, sigterm, childVars, envVars, cmdVars,
                    hostVars >>

TermSleep_one_more ==
    /\ pc = "term_sleep"
    /\ IF term.polls = PollBudget + 1
       THEN /\ term' = [term EXCEPT !.sleeps = @ + 1, !.outcome = "exhausted"]
            /\ pc' = ret
       ELSE /\ term' = [term EXCEPT !.sleeps = @ + 1]
            /\ pc' = "term_poll"
    /\ UNCHANGED << lang, ret, elapsed, sandbox, ready, cmdLog, response,
                    termCalls, proc, sigterm, childVars, envVars, cmdVars,
                    hostVars >>

\* sleep(1 s), then the next round of `for _ in 0..5`.
TermSleep ==
    /\ pc = "term_sleep"
    /\ IF term.polls = PollBudget
       THEN /\ term' = [term EXCEPT !.sleeps = @ + 1, !.outcome = "exhausted"]
            /\ pc' = ret
       ELSE /\ term' = [term EXCEPT !.sleeps = @ + 1]
            /\ pc' = "term_poll"
    /\ UNCHANGED << lang, ret, elapsed, sandbox, ready, cmdLog, response,
                    termCalls, proc, sigterm, childVars, envVars, cmdVars,
                    hostVars >>

terminate == TermKill \/ TermPoll \/ TermSleep

\* ------------------------------------------------------------ the recipes
CreateFailed == << "Failed to create sandbox" >>
TimedOut == << "Execution timed out" >>
WriteErrors == {"Permission denied (os error 13)"}
WriteFailed(e) == << "Failed to write code to file: ", e >>
CompilationFailed_bare(output) == output
\* format!("Compilation failed:\n{}", output)
CompilationFailed(output) == << CompFailedText, NL >> \o output

\* A run_command call goes into the log with what was known when it was made.
Issue(cmd, res) ==
    cmdLog' = Append(cmdLog, [cmd |-> cmd, ok |-> res.ok, ready |-> ready,
                              terminated |-> termCalls > 0,
                              alive |-> proc = "alive"])

SandboxNew_unwrap ==
    /\ pc = "new"
    /\ \/ /\ sandbox' = "Some"
          /\ proc' = "alive"
          /\ cpc' = 1
          /\ UNCHANGED response
       \/ UNCHANGED << sandbox, proc, cpc, response >>
    /\ pc' = "write"
    /\ elapsed' = 0
    /\ UNCHANGED << lang, ret, ready, cmdLog, term, termCalls, sigterm, steps,
                    filter, rlimits, cexit, envVars, cmdVars,
                    hostVars >>

\* Sandbox::new as the parent sees it: fork gives the child's pid, or fails.
SandboxNew ==
    /\ pc = "new"
    /\ \/ /\ sandbox' = "Some"
          /\ proc' = "alive"
          /\ cpc' = 1
          /\ pc' = "write"
          /\ elapsed' = 0
          /\ UNCHANGED response
       \/ /\ pc' = "done"
          /\ response' = CreateFailed
          /\ UNCHANGED << sandbox, proc, cpc, elapsed >>
    /\ UNCHANGED << lang, ret, ready, cmdLog, term, termCalls, sigterm, steps,
                    filter, rlimits, cexit, envVars, cmdVars,
                    hostVars >>

\* fs::write of the source file; an error is answered at once.
WriteSource ==
    /\ pc = "write"
    /\ \/ /\ \E d \in Durations : elapsed' = Min(elapsed + d, timeout)
          /\ pc' = IF lang = "cpp" THEN "compile" ELSE "loop"
          /\ UNCHANGED response
       \/ /\ \E e \in WriteErrors : response' = WriteFailed(e)
          /\ pc' = "done"
          /\ UNCHANGED elapsed
    /\ UNCHANGED << lang, ret, sandbox, ready, cmdLog, term, termCalls, proc,
                    sigterm, childVars, envVars, cmdVars,
                    hostVars >>

Compile_no_return ==
    /\ lang = "cpp"
    /\ pc = "compile"
    /\ \E res \in Results(proc = "alive"), d \in Durations :
         /\ Issue("compile", res)
         /\ IF res.ok
            THEN /\ pc' = "loop"
                 /\ elapsed' = Min(elapsed + d, timeout)
                 /\ UNCHANGED << response, term, termCalls, ret >>
            ELSE TermCall(CompilationFailed(res.text)) /\ ret' = "loop"
    /\ UNCHANGED << lang, sandbox, ready, proc, sigterm, childVars,
                    envVars, cmdVars,
                    hostVars >>

\* run_cpp: sandbox.run_command(&compile_command) and the match on it.
Compile ==
    /\ lang = "cpp"
    /\ pc = "compile"
    /\ \E res \in Results(proc = "alive"), d \in Durations :
         /\ Issue("compile", res)
         /\ IF res.ok
            THEN /\ pc' = "loop"
                 /\ elapsed' = Min(elapsed + d, timeout)
                 /\ UNCHANGED << response, term, termCalls >>
            ELSE TermCall(CompilationFailed(res.text))
    /\ UNCHANGED << lang, ret, sandbox, ready, proc, sigterm, childVars,
                    envVars, cmdVars,
                    hostVars >>

\* The head of the readiness loop: the clock test, then is_running.
Probe ==
    /\ pc = "loop"
    /\ IF elapsed >= timeout
       THEN TermCall(TimedOut) /\ UNCHANGED ready
       ELSE /\ IF is_running
               THEN ready' = TRUE /\ pc' = "exec"
               ELSE pc' = "sleep" /\ UNCHANGED ready
            /\ UNCHANGED << response, term, termCalls, elapsed >>
    /\ UNCHANGED << lang, ret, sandbox, cmdLog, proc, sigterm, childVars,
                    envVars, cmdVars,
                    hostVars >>

ReadinessSleep_frozen_clock ==
    /\ pc = "sleep"
    /\ pc' = "loop"
    /\ UNCHANGED << lang, ret, elapsed, sandbox, ready, cmdLog, response, term,
                    termCalls, proc, sigterm, childVars, envVars, cmdVars,
                    hostVars >>

\* thread::sleep(1 s) at the foot of the loop.
ReadinessSleep ==
    /\ pc = "sleep"
    /\ \E d \in SleepDurations : elapsed' = Min(elapsed + d, timeout)
    /\ pc' = "loop"
    /\ UNCHANGED << lang, ret, sandbox, ready, cmdLog, response, term,
                    termCalls, proc, sigterm, childVars, envVars, cmdVars,
                    hostVars >>

Execute_retry ==
    /\ pc = "exec"
    /\ \E res \in Results(proc = "alive") :
         /\ Issue("execute", res)
         /\ IF res.ok
            THEN TermCall(res.text)
            ELSE /\ pc' = "sleep"
                 /\ UNCHANGED << response, term, termCalls, elapsed >>
    /\ UNCHANGED << lang, ret, sandbox, ready, proc, sigterm, childVars,
                    envVars, cmdVars, hostVars >>

\* run_command of the program inside the loop: either outcome is answered.
Execute ==
    /\ pc = "exec"
    /\ \E res \in Results(proc = "alive") :
         /\ Issue("execute", res)
         /\ TermCall(res.text)
    /\ UNCHANGED << lang, ret, sandbox, ready, proc, sigterm, childVars,
                    envVars, cmdVars,
                    hostVars >>

run_python ==
    SandboxNew \/ WriteSource \/ Probe \/ ReadinessSleep \/ Execute \/ terminate

\* run_cpp is run_python with the compilation between the write and the loop.
run_cpp == run_python \/ Compile

\* ------------------------------------------------------ the specifications
Idle ==
    /\ ret = "done"
    /\ elapsed = 0
    /\ sandbox = "None"
    /\ ready = FALSE
    /\ cmdLog = << >>
    /\ response = NoText
    /\ term = TermIdle
    /\ termCalls = 0
    /\ proc = "none"
    /\ sigterm = FALSE
    /\ cpc = 0
    /\ steps = << >>
    /\ filter = FALSE
    /\ rlimits = {}
    /\ cexit = "none"
    /\ anchors = NoAnchors

\* One request arrives on one of the two routes.
Init ==
    /\ lang \in {"python", "cpp"}
    /\ pc = "new"
    /\ envIso \in EnvValues
    /\ autoReap \in BOOLEAN
    /\ cmdOut = NoOutput
    /\ cmdRes = << >>
    /\ Idle

Next == run_cpp \/ ChildStep \/ DeliverSigterm

Spec == Init /\ [][Next]_vars

\* The handler thread is scheduled again and again: a recipe that can take a
\* step takes one.  Nothing is asked of the child or of signal delivery.
SpecLive == Spec /\ WF_vars(run_cpp)

\* A direct caller of the handle: it holds a sandbox Sandbox::new gave it and
\* calls terminate on it, again and again.
CallTerminate ==
    /\ pc = "caller"
    /\ termCalls < MaxCalls
    /\ TermCall(response)
    /\ UNCHANGED << lang, ret, sandbox, ready, cmdLog, proc, sigterm,
                    childVars, envVars, cmdVars,
                    hostVars >>

InitTerm ==
    /\ lang = "python"
    /\ pc = "caller"
    /\ ret = "caller"
    /\ sandbox = "Some"
    /\ proc = "alive"
    /\ cpc = 1
    /\ envIso \in EnvValues
    /\ autoReap \in BOOLEAN
    /\ elapsed = 0
    /\ ready = FALSE
    /\ cmdLog = << >>
    /\ response = NoText
    /\ term = TermIdle
    /\ termCalls = 0
    /\ sigterm = FALSE
    /\ steps = << >>
    /\ filter = FALSE
    /\ rlimits = {}
    /\ cexit = "none"
    /\ cmdOut = NoOutput
    /\ cmdRes = << >>
    /\ anchors = NoAnchors

NextTerm == CallTerminate \/ terminate \/ ChildStep \/ DeliverSigterm

SpecTerm == InitTerm /\ [][NextTerm]_vars

\* run_command on its own: Command::output has given cmdOut back.
RunCommand ==
    /\ pc = "cmd"
    /\ cmdRes = << >>
    /\ cmdRes' = << run_command(cmdOut) >>
    /\ UNCHANGED << parentVars, childVars, envVars, hostVars, proc, sigterm,
                    cmdOut >>

InitCmd ==
    /\ lang = "python"
    /\ pc = "cmd"
    /\ envIso = "unset"
    /\ autoReap = FALSE
    /\ cmdOut \in Outputs(TRUE, RawTexts)
    /\ cmdRes = << >>
    /\ Idle

NextCmd == RunCommand

SpecCmd == InitCmd /\ [][NextCmd]_vars

\* ------------------------------------------- requests served side by side
\* Each handler forks its own anchor.  The kernel gives fork a pid that no
\* process, running or zombie, holds; the child reads the same number back
\* with getpid and builds its directories from it.
PidsInUse == {anchors[h].pid : h \in {g \in Handlers : anchors[g].st # "none"}}

Fork(h) ==
    /\ pc = "host"
    /\ anchors[h].st = "none"
    /\ \E p \in Pids \ PidsInUse :
         anchors' = [anchors EXCEPT ![h] = [NoAnchor EXCEPT !.st = "alive",
                                                            !.pid = p]]
    /\ UNCHANGED << parentVars, childVars, envVars, cmdVars, proc, sigterm >>

ConfigureCgroups(h) ==
    /\ pc = "host"
    /\ anchors[h].st = "alive"
    /\ anchors[h].cgroup = NoPath
    /\ anchors' = [anchors EXCEPT ![h].cgroup = cgroup_path(anchors[h].pid)]
    /\ UNCHANGED << parentVars, childVars, envVars, cmdVars, proc, sigterm >>

IsolateFilesystem(h) ==
    /\ pc = "host"
    /\ anchors[h].st = "alive"
    /\ anchors[h].cgroup # NoPath
    /\ anchors[h].root = NoPath
    /\ anchors' = [anchors EXCEPT ![h].root = root_dir(anchors[h].pid)]
    /\ UNCHANGED << parentVars, childVars, envVars, cmdVars, proc, sigterm >>

\* The anchor ends (a panic, a signal): it is a zombie and keeps its pid.
AnchorExit(h) ==
    /\ pc = "host"
    /\ anchors[h].st = "alive"
    /\ anchors' = [anchors EXCEPT ![h].st = "zombie"]
    /\ UNCHANGED << parentVars, childVars, envVars, cmdVars, proc, sigterm >>

\* waitpid in terminate reaps it; the pid is free again and the request ends.
Reap(h) ==
    /\ pc = "host"
    /\ anchors[h].st = "zombie"
    /\ anchors' = [anchors EXCEPT ![h] = NoAnchor]
    /\ UNCHANGED << parentVars, childVars, envVars, cmdVars, proc, sigterm >>

InitHost ==
    /\ lang = "python"
    /\ pc = "host"
    /\ envIso = "true"
    /\ autoReap = FALSE
    /\ cmdOut = NoOutput
    /\ cmdRes = << >>
    /\ Idle

NextHost ==
    \E h \in Handlers :
        Fork(h) \/ ConfigureCgroups(h) \/ IsolateFilesystem(h)
        \/ AnchorExit(h) \/ Reap(h)

SpecHost == InitHost /\ [][NextHost]_vars

\* ================================================================ claims
StartsWith(s, p) == Len(s) >= Len(p) /\ SubSeq(s, 1, Len(p)) = p
returned == pc = "done"

\* C1: in run_python and run_cpp alike, every run_command is issued only
\* after is_running has returned true at least once for that sandbox.
C1_CommandsAfterReady ==
    \A i \in DOMAIN cmdLog : cmdLog[i].ready

\* C2: a request whose source was staged and for which is_running never
\* returned true is answered "Execution timed out", after exactly one call of
\* terminate and so exactly one SIGTERM.
C2_TimeoutOutcome ==
    (/\ returned
     /\ sandbox = "Some"
     /\ ~ready
     /\ response \notin {WriteFailed(e) : e \in WriteErrors})
    => (response = TimedOut /\ termCalls = 1 /\ term.kills = 1)

\* The responses run_cpp gives when the compiled binary ran and exited
\* non-zero: the trimmed stderr, as it is.
NonZeroExits ==
    {o \in Outputs(TRUE, ValidTexts) : o.spawned /\ ~success(o.status)}
RunFailureResponses == {run_command(o).text : o \in NonZeroExits}
FailureTexts == {r.text : r \in {x \in ResultsAlive \cup ResultsDead : ~x.ok}}

compileFailed ==
    /\ lang = "cpp"
    /\ cmdLog # << >>
    /\ cmdLog[1].cmd = "compile"
    /\ ~cmdLog[1].ok

CompPrefix == << "Compilation failed:", "\n" >>

\* C3 as stated: after a failed compilation no execute command is issued, the
\* response is the failure text behind "Compilation failed:", and that
\* response is none of the responses a binary that ran and exited non-zero
\* can produce.
C3_CompileFailureDistinct ==
    compileFailed =>
        /\ Len(cmdLog) = 1
        /\ StartsWith(response, CompPrefix)
        /\ response \notin RunFailureResponses

\* C3 as amended: after a failed compilation no execute command is issued and
\* the response is "Compilation failed:\n" followed by the failure text of the
\* compile command; it differs from every run-failure response that does not
\* itself begin with "Compilation failed:\n".
C3_CompileFailurePrefixed ==
    compileFailed =>
        /\ Len(cmdLog) = 1
        /\ StartsWith(response, CompPrefix)
        /\ SubSeq(response, Len(CompPrefix) + 1, Len(response)) \in FailureTexts
        /\ \A t \in RunFailureResponses :
             ~StartsWith(t, CompPrefix) => response # t

C3_Witness ==
    /\ compileFailed
    /\ returned
    /\ response = << "Compilation failed:", "\n", "x" >>

inTerminate == pc \in {"term_kill", "term_poll", "term_sleep"}

\* C4: a call of terminate whose SIGTERM was sent makes at most 5 waitpid
\* polls with a sleep after each unsuccessful one, returns without sleeping
\* at the poll that finds the anchor exited, and after 5 polls returns having
\* sent nothing more than the one SIGTERM.
C4_BoundedPolling ==
    /\ term.polls <= 5
    /\ term.sleeps <= 5
    /\ term.kills <= 1
    /\ term.sleeps <= term.polls
    /\ term.polls <= term.sleeps + 1
    /\ term.reaped => (~inTerminate /\ term.sleeps = term.polls - 1)
    /\ (term.sent /\ ~inTerminate /\ ~term.reaped)
         => (term.polls = 5 /\ term.sleeps = 5 /\ term.kills = 1)

C4_Witness ==
    /\ term.outcome = "exhausted"
    /\ term.polls = 5
    /\ term.sleeps = 5
    /\ proc = "alive"

\* C5: a call of terminate calls kill exactly once, and when that call fails
\* it returns at once, with no waitpid poll and no sleep.
C5_SignalOnce ==
    /\ term.kills <= 1
    /\ (term.outcome # "idle" /\ pc # "term_kill") => term.kills = 1
    /\ (term.kills = 1 /\ ~term.sent)
         => (~inTerminate /\ term.polls = 0 /\ term.sleeps = 0)

C5_Witness ==
    /\ term.kills = 1
    /\ ~term.sent
    /\ pc = "caller"

\* C6: a second (or later) call of terminate that begins when the anchor has
\* already exited, reaped or not, ends without a sleep and never runs out its
\* polls.
C6_SecondTerminateImmediate ==
    (termCalls >= 2 /\ term.gone)
    => (term.sleeps = 0 /\ term.polls <= 1 /\ term.outcome # "exhausted")

C6_Witness ==
    /\ termCalls = 2
    /\ term.gone
    /\ ~autoReap
    /\ proc = "reaped"
    /\ term.outcome = "kill_failed"
    /\ pc = "caller"

AllWhitespace(s) == \A i \in DOMAIN s : IsWhitespace(s[i])

\* t is s without its leading and trailing blank tokens.
IsTrimmedFrom(t, s) ==
    /\ t = << >> \/ (~IsWhitespace(t[1]) /\ ~IsWhitespace(t[Len(t)]))
    /\ \E i \in 0..Len(s), j \in 0..Len(s) :
         /\ i <= j
         /\ t = SubSeq(s, i + 1, j)
         /\ AllWhitespace(SubSeq(s, 1, i))
         /\ AllWhitespace(SubSeq(s, j + 1, Len(s)))

\* C7: run_command always returns one tagged outcome: Success with the
\* trimmed text of stdout on exit status 0, Failure with the trimmed text of
\* stderr on any other status, Failure with the error's message when the
\* command could not be spawned.
C7_TaggedOutcome ==
    cmdRes # << >> =>
        LET r == cmdRes[1]
            o == cmdOut
        IN /\ Len(cmdRes) = 1
           /\ r.ok \in BOOLEAN
           /\ (o.spawned /\ o.status = 0)
                => (r.ok /\ IsTrimmedFrom(r.text, from_utf8_lossy(o.stdout)))
           /\ (o.spawned /\ o.status # 0)
                => (~r.ok /\ IsTrimmedFrom(r.text, from_utf8_lossy(o.stderr)))
           /\ ~o.spawned => (~r.ok /\ r.text = o.err)

C7_Witness ==
    /\ cmdRes = << [ok |-> FALSE, text |-> << "x" >>] >>
    /\ cmdOut.spawned
    /\ cmdOut.status = 1
    /\ cmdOut.stdout = << "x", "x" >>
    /\ cmdOut.stderr = << "\n", "x", "\n" >>

IsPrefix(a, b) == Len(a) <= Len(b) /\ a = SubSeq(b, 1, Len(a))
OpsRun == [i \in DOMAIN steps |-> steps[i].op]

\* The configuration steps the child has applied, in the order it applied
\* them; apply_seccomp counts from the moment its filter is loaded.
StepsApplied ==
    LET Applied(st) == st.ok /\ st.op # "seccomp_prctl"
        done == SelectSeq(steps, Applied)
    IN [i \in DOMAIN done |->
          IF done[i].op = "seccomp_load" THEN "apply_seccomp" ELSE done[i].op]

StatedOrder ==
    << "unshare", "configure_cgroups", "isolate_filesystem",
       "drop_root_privileges", "limit_process_count", "disable_network",
       "apply_seccomp", "rlimit_cpu", "rlimit_fsize", "idle" >>

\* C8: with USE_COMPLETE_ISOLATION=true the child applies its steps in the
\* order of section 4.1: namespaces, cgroup limits, chroot, privilege drop,
\* process-count cap, network disablement, syscall filter, then the two
\* rlimits.
C8_StatedOrder ==
    envIso = "true" => IsPrefix(StepsApplied, StatedOrder)

ClaimedFatal ==
    {"configure_cgroups", "isolate_filesystem", "drop_root_privileges",
     "limit_process_count", "disable_network", "seccomp_load"}

\* C10: with complete isolation on, a configuration step that fails is the
\* last thing the child does: it panics, runs no later step and never reaches
\* the idle loop.
C10_FailureAborts ==
    envIso = "true" =>
        \A i \in DOMAIN steps :
            (steps[i].op \in ClaimedFatal /\ ~steps[i].ok)
            => (i = Len(steps) /\ cexit = "panic" /\ proc # "alive" /\ ~parked)

C10_Witness ==
    /\ envIso = "true"
    /\ steps # << >>
    /\ steps[Len(steps)] = [op |-> "seccomp_load", ok |-> FALSE]
    /\ cexit = "panic"

RlimitOps == {"rlimit_cpu", "rlimit_fsize"}

\* C11: a failed unshare is the only thing the child does: it panics before
\* any other step runs and before any rlimit is set.  A failed
\* set_process_limit is only logged: the child does not panic on it, goes on
\* to its next operation, and once parked has run the whole program.
C11_UnshareFatalRlimitLogged ==
    /\ \A i \in DOMAIN steps :
         (steps[i].op = "unshare" /\ ~steps[i].ok)
         => /\ steps = << [op |-> "unshare", ok |-> FALSE] >>
            /\ cexit = "panic"
            /\ proc \notin {"alive", "none"}
            /\ rlimits = {}
            /\ ~filter
    /\ \A i \in DOMAIN steps :
         (steps[i].op \in RlimitOps /\ ~steps[i].ok)
         => /\ cexit \in {"none", "SIGTERM"}
            /\ cpc > i
            /\ (proc = "alive" /\ ~parked) => ENABLED ChildStep
            /\ LimitOf(steps[i].op) \notin rlimits

C11_Witness ==
    /\ parked
    /\ \E i \in DOMAIN steps : steps[i] = [op |-> "rlimit_cpu", ok |-> FALSE]
    /\ \E i \in DOMAIN steps : steps[i] = [op |-> "rlimit_fsize", ok |-> FALSE]
    /\ steps[Len(steps)].op = "idle"

WriteFailures == {WriteFailed(e) : e \in WriteErrors}

\* C12: a request whose anchor child failed fatally while configuring, before
\* any command was injected, and whose source was staged, is answered
\* "Execution timed out" and nothing else, on either route.
C12_FatalSurfacesAsTimeout ==
    (/\ returned
     /\ sandbox = "Some"
     /\ cexit = "panic"
     /\ response \notin WriteFailures
     /\ \A i \in DOMAIN cmdLog : ~cmdLog[i].alive)
    => response = TimedOut

\* C13: when fork fails there is no handle and no anchor; the recipe goes
\* from Sandbox::new straight to the response "Failed to create sandbox":
\* it never stages the source, probes is_running, issues a run_command or
\* calls terminate.
C13_CreateFailed ==
    sandbox = "None" =>
        /\ pc \in {"new", "done"}
        /\ proc = "none"
        /\ steps = << >>
        /\ ~ready
        /\ elapsed = 0
        /\ cmdLog = << >>
        /\ termCalls = 0
        /\ term = TermIdle
        /\ ~sigterm
        /\ returned => response = CreateFailed

C13_Witness ==
    /\ returned
    /\ sandbox = "None"
    /\ response = CreateFailed

\* C14: no run_command is issued against a sandbox on which terminate has
\* been called: every command in the log was issued before the first call,
\* and from that call on the recipe is inside terminate or has returned.
C14_NoCommandAfterTerminate ==
    /\ \A i \in DOMAIN cmdLog : ~cmdLog[i].terminated
    /\ termCalls > 0 => (inTerminate \/ returned)

C14_Witness ==
    /\ returned
    /\ termCalls = 1
    /\ Len(cmdLog) = 2
    /\ term.outcome = "exited"

\* C15: a request for which Sandbox::new gave a handle has called terminate
\* on it exactly once by the time its response is returned, on every path,
\* the failed write of the source file included.
C15_TerminatedOnce ==
    (returned /\ sandbox = "Some") => termCalls = 1

bothAlive(a, b) == a # b /\ anchors[a].st = "alive" /\ anchors[b].st = "alive"

\* C16: two anchors alive at the same time have different pids, and the
\* cgroup directory and the chroot directory each builds from its pid differ
\* from the other's, whether or not it has used them yet.
C16_DistinctDirectories ==
    \A a \in Handlers, b \in Handlers :
        bothAlive(a, b) =>
            /\ anchors[a].pid # anchors[b].pid
            /\ cgroup_path(anchors[a].pid) # cgroup_path(anchors[b].pid)
            /\ root_dir(anchors[a].pid) # root_dir(anchors[b].pid)
            /\ anchors[a].cgroup \in {NoPath, cgroup_path(anchors[a].pid)}
            /\ anchors[a].root \in {NoPath, root_dir(anchors[a].pid)}
            /\ anchors[a].cgroup # NoPath => anchors[a].cgroup # anchors[b].cgroup
            /\ anchors[a].root # NoPath => anchors[a].root # anchors[b].root

C16_Witness ==
    \E a \in Handlers, b \in Handlers :
        /\ bothAlive(a, b)
        /\ anchors[a].root # NoPath
        /\ anchors[b].root # NoPath
        /\ Len(anchors[a].cgroup) < Len(anchors[b].cgroup)

\* C17: is_running tells only that the anchor's process entry exists.  A
\* probe answers false (the recipe sleeps) only when the entry is gone, and
\* answers true (the recipe goes on to run_command) whatever the child has
\* configured so far; the witness is a command injected after a true probe
\* into an anchor that has not yet run unshare.
C17_ProbeIsLivenessOnly ==
    /\ pc = "sleep" => proc = "reaped"
    /\ pc = "exec" => (ready /\ proc \in {"alive", "zombie", "reaped"})

C17_Witness ==
    /\ pc = "term_kill"
    /\ cmdLog # << >>
    /\ cmdLog[Len(cmdLog)].cmd = "execute"
    /\ cmdLog[Len(cmdLog)].ready
    /\ cmdLog[Len(cmdLog)].alive
    /\ proc = "alive"
    /\ cpc = 1
    /\ steps = << >>

\* C18: in either mode, a child whose every configuration step has succeeded
\* leaves Sandbox::new by nothing but the SIGTERM of terminate: it does not
\* panic, and its own syscall filter does not kill it.
C18_AnchorParksAlive ==
    (\A i \in DOMAIN steps : steps[i].ok) =>
        /\ cexit \in {"none", "SIGTERM"}
        /\ cexit = "SIGTERM" => termCalls > 0

\* C19: every request is answered: whatever the anchor does and whether or
\* not its SIGTERM is ever delivered, the recipe leaves the readiness loop
\* and terminate, and returns its response.
C19_EventuallyReturns == <>returned

C19_Witness ==
    /\ returned
    /\ response = TimedOut
    /\ term.polls = PollBudget
    /\ term.outcome = "exhausted"
    /\ proc = "alive"

OutcomeTexts(ok) ==
    {r.text : r \in {q \in ResultsAlive \cup ResultsDead : q.ok = ok}}

\* C20: no command is retried.  run_python issues at most one run_command,
\* the execute; run_cpp at most two, the compile and then, only if that
\* succeeded, one execute.  Once the execute has an outcome, Success or
\* Failure, the loop is left: terminate is called once and the response is
\* that outcome's text as run_command gave it.
C20_NoRetry ==
    /\ lang = "python" =>
         /\ Len(cmdLog) <= 1
         /\ \A i \in DOMAIN cmdLog : cmdLog[i].cmd = "execute"
    /\ lang = "cpp" =>
         /\ Len(cmdLog) <= 2
         /\ cmdLog # << >> => cmdLog[1].cmd = "compile"
         /\ Len(cmdLog) = 2 => (cmdLog[1].ok /\ cmdLog[2].cmd = "execute")
    /\ (cmdLog # << >> /\ cmdLog[Len(cmdLog)].cmd = "execute") =>
         /\ termCalls = 1
         /\ inTerminate \/ returned
         /\ response \in OutcomeTexts(cmdLog[Len(cmdLog)].ok)

C20_Witness ==
    /\ returned
    /\ lang = "cpp"
    /\ Len(cmdLog) = 2
    /\ ~cmdLog[2].ok
    /\ response = << "x", NL, "x" >>
    /\ termCalls = 1

====
